---- MODULE Spec2Model ----
(***************************************************************************)
(* A model of the shell of app/main.ts: the tokenizer loop and the         *)
(* redirection loop of parseInput, the builtin handlers, the external      *)
(* command lookup of handleNotFound and the read loop of prompt.           *)
(*                                                                         *)
(* A string is a sequence of one-character strings, so that indexing,      *)
(* startsWith and slice are computed as the code computes them.  Fixed     *)
(* message texts are kept as one element each.                             *)
(***************************************************************************)
EXTENDS Integers, Sequences, FiniteSets, TLC

VARIABLES
  tk,      \* the locals of parseInput's tokenizer loop (SpecTok)
  rx,      \* the locals of parseInput's redirection loop (SpecRedir)
  pc,      \* the read loop: "prompt" (a question is pending), "closed" (after
           \* rl.close()), "crashed" (an exception left the question callback)
  cwd,     \* process.cwd()
  fs,      \* the regular files: absolute path -> content
  execs,   \* the absolute paths of the files with execute permission
  nLines,  \* the number of lines read so far
  last,    \* what the dispatch of the last line did, in order
  cp       \* the line editor: buffer, tabPressCount, directory listings and
           \* what the last two key presses did (SpecComp)

shellVars == <<pc, cwd, fs, execs, nLines, last>>
vars == <<tk, rx, pc, cwd, fs, execs, nLines, last, cp>>

(***************************************************************************)
(* Characters                                                              *)
(***************************************************************************)
SP == " "
TAB == "\t"
BS == "\\"
SQ == "'"
DQ == "\""
DOLLAR == "$"
NL == "\n"
GT == ">"

\* line[i + 1] past the end of a JavaScript string
Undefined == "undefined"

\* the characters input lines are made of
Alphabet == {SP, TAB, BS, SQ, DQ, DOLLAR, NL, "a"}

\* the longest line the tokenizer is run on
MaxLen == 4

\* all strings over S of length at most n
RECURSIVE StringsUpTo(_, _)
StringsUpTo(S, n) ==
  IF n = 0 THEN {<<>>}
  ELSE LET shorter == StringsUpTo(S, n - 1)
       IN shorter \cup {Append(s, c) : s \in {x \in shorter : Len(x) = n - 1}, c \in S}

(***************************************************************************)
(* parseInput, part 1: the tokenizer loop (main.ts 146-210).               *)
(* i is the 1-based index of the character the next iteration reads.       *)
(***************************************************************************)
specialCharactersForSlash == {BS, DOLLAR, DQ, NL}

\* line[k] for a 1-based k, undefined past the end
CharAt(line, k) == IF k >= 1 /\ k <= Len(line) THEN line[k] ELSE Undefined

TokInit(line) ==
  [line |-> line, i |-> 1, currentArg |-> <<>>, args |-> <<>>,
   inSingleQuote |-> FALSE, inDoubleQuote |-> FALSE, done |-> FALSE]

\* a backslash inside double quotes (main.ts 161-170)
TokBackslashDouble_EscapeAny(t) ==
  IF t.i + 1 <= Len(t.line)
  THEN [t EXCEPT !.currentArg = Append(@, t.line[t.i + 1]), !.i = @ + 2]
  ELSE [t EXCEPT !.currentArg = Append(@, BS), !.i = @ + 1]

TokBackslashDouble(t) ==
  LET nextChar == CharAt(t.line, t.i + 1) IN
  IF nextChar \in specialCharactersForSlash
  THEN [t EXCEPT !.currentArg = Append(@, nextChar), !.i = @ + 2]
  ELSE [t EXCEPT !.currentArg = Append(@, BS), !.i = @ + 1]

\* a backslash outside any quotes (main.ts 171-177)
TokBackslashPlain_KeepsMeaning(t) ==
  [t EXCEPT !.i = @ + 1]

TokBackslashPlain(t) ==
  IF t.i + 1 <= Len(t.line)
  THEN [t EXCEPT !.currentArg = Append(@, t.line[t.i + 1]), !.i = @ + 2]
  ELSE [t EXCEPT !.i = @ + 1]

\* an unquoted space (main.ts 196-202)
TokSpace_PushEmpty(t) ==
  [t EXCEPT !.args = Append(@, t.currentArg), !.currentArg = <<>>, !.i = @ + 1]

TokSpace(t) ==
  IF Len(t.currentArg) > 0
  THEN [t EXCEPT !.args = Append(@, t.currentArg), !.currentArg = <<>>, !.i = @ + 1]
  ELSE [t EXCEPT !.i = @ + 1]

\* the separator test `char === " "` at main.ts 196
IsSeparator_AnyBlank(char) == char \in {SP, TAB}

IsSeparator(char) == char = SP

\* one iteration of the for loop, i++ included (main.ts 153-206)
TokStep_QuotesAlwaysToggle(t) ==
  LET char == t.line[t.i] IN
  IF char = BS THEN
    IF t.inSingleQuote THEN [t EXCEPT !.currentArg = Append(@, char), !.i = @ + 1]
    ELSE IF t.inDoubleQuote THEN TokBackslashDouble(t)
    ELSE TokBackslashPlain(t)
  ELSE IF char = DQ THEN
    [t EXCEPT !.inDoubleQuote = ~@, !.i = @ + 1]
  ELSE IF char = SQ THEN
    [t EXCEPT !.inSingleQuote = ~@, !.i = @ + 1]
  ELSE IF IsSeparator(char) /\ ~t.inSingleQuote /\ ~t.inDoubleQuote THEN
    TokSpace(t)
  ELSE
    [t EXCEPT !.currentArg = Append(@, char), !.i = @ + 1]

TokStep(t) ==
  LET char == t.line[t.i] IN
  IF char = BS THEN
    IF t.inSingleQuote THEN [t EXCEPT !.currentArg = Append(@, char), !.i = @ + 1]
    ELSE IF t.inDoubleQuote THEN TokBackslashDouble(t)
    ELSE TokBackslashPlain(t)
  ELSE IF char = DQ /\ ~t.inSingleQuote THEN
    [t EXCEPT !.inDoubleQuote = ~@, !.i = @ + 1]
  ELSE IF char = SQ /\ ~t.inDoubleQuote THEN
    [t EXCEPT !.inSingleQuote = ~@, !.i = @ + 1]
  ELSE IF IsSeparator(char) /\ ~t.inSingleQuote /\ ~t.inDoubleQuote THEN
    TokSpace(t)
  ELSE
    [t EXCEPT !.currentArg = Append(@, char), !.i = @ + 1]

\* the flush after the loop
TokFlush(t) ==
  IF Len(t.currentArg) > 0
  THEN [t EXCEPT !.args = Append(@, t.currentArg), !.done = TRUE]
  ELSE [t EXCEPT !.done = TRUE]

RECURSIVE TokRun(_)
TokRun(t) ==
  IF t.done THEN t
  ELSE IF t.i <= Len(t.line) THEN TokRun(TokStep(t))
  ELSE TokRun(TokFlush(t))

\* the token sequence of a line
tokenize(line) == TokRun(TokInit(line)).args

(***************************************************************************)
(* String helpers of the JavaScript runtime                                *)
(***************************************************************************)
\* s.startsWith(p)
StartsWith(s, p) == Len(s) >= Len(p) /\ SubSeq(s, 1, Len(p)) = p

\* s.slice(k): s without its first k characters
Slice(s, k) == SubSeq(s, k + 1, Len(s))

\* s.includes(p)
Includes(s, p) ==
  \E k \in 1..(Len(s) - Len(p) + 1) : SubSeq(s, k, k + Len(p) - 1) = p

\* an optional value: None is undefined, Some(v) is v
None == <<>>
Some(v) == <<v>>

\* the truthiness test `if (x)` of an optional string: undefined and "" are falsy
Truthy(o) == o # None /\ Len(o[1]) > 0

(***************************************************************************)
(* parseInput, part 2: the redirection loop (main.ts 224-298).             *)
(* i is the 1-based index of the token the next iteration reads.           *)
(***************************************************************************)
opOut == <<GT>>
opOutApp == <<GT, GT>>
op1Out == <<"1", GT>>
op1OutApp == <<"1", GT, GT>>
op2Out == <<"2", GT>>
op2OutApp == <<"2", GT, GT>>

\* the tokens compared with === at main.ts 234-241
StandaloneOps == {opOut, opOutApp, op1Out, op1OutApp, op2Out, op2OutApp}

RedirInit(rawArgs) ==
  [rawArgs |-> rawArgs, i |-> 1, filteredArgs |-> <<>>,
   redirectTarget |-> None, redirectErrorTarget |-> None,
   appendStdout |-> FALSE, appendStderr |-> FALSE, done |-> FALSE]

\* filteredArgs.push(token) at main.ts 297, then i++
RedirKeep_Prepends(r, token) ==
  [r EXCEPT !.filteredArgs = <<token>> \o @, !.i = @ + 1]

RedirKeep(r, token) ==
  [r EXCEPT !.filteredArgs = Append(@, token), !.i = @ + 1]

\* the assignments of a recognised redirection, then i advanced by `skip`
RedirSet_FirstWins(r, isStderr, target, isAppend, skip) ==
  IF isStderr
  THEN IF r.redirectErrorTarget # None THEN [r EXCEPT !.i = @ + skip]
       ELSE [r EXCEPT !.redirectErrorTarget = Some(target), !.appendStderr = isAppend,
                      !.i = @ + skip]
  ELSE IF r.redirectTarget # None THEN [r EXCEPT !.i = @ + skip]
       ELSE [r EXCEPT !.redirectTarget = Some(target), !.appendStdout = isAppend,
                      !.i = @ + skip]

RedirSet(r, isStderr, target, isAppend, skip) ==
  IF isStderr
  THEN [r EXCEPT !.redirectErrorTarget = Some(target), !.appendStderr = isAppend,
                 !.i = @ + skip]
  ELSE [r EXCEPT !.redirectTarget = Some(target), !.appendStdout = isAppend,
                 !.i = @ + skip]

\* a standalone operator (main.ts 242-254)
RedirStandalone_AppendOnlyBare(r, token) ==
  IF r.i + 1 <= Len(r.rawArgs)
  THEN RedirSet(r, StartsWith(token, <<"2">>), r.rawArgs[r.i + 1], token = opOutApp, 2)
  ELSE RedirKeep(r, token)

RedirStandalone_DropsDangling(r, token) ==
  IF r.i + 1 <= Len(r.rawArgs)
  THEN RedirSet(r, StartsWith(token, <<"2">>), r.rawArgs[r.i + 1],
                Includes(token, opOutApp), 2)
  ELSE [r EXCEPT !.i = @ + 1]

RedirStandalone_EmptyTarget(r, token) ==
  IF r.i + 1 <= Len(r.rawArgs)
  THEN RedirSet(r, StartsWith(token, <<"2">>), r.rawArgs[r.i + 1],
                Includes(token, opOutApp), 2)
  ELSE RedirSet(r, StartsWith(token, <<"2">>), <<>>, Includes(token, opOutApp), 1)

RedirStandalone(r, token) ==
  IF r.i + 1 <= Len(r.rawArgs)
  THEN RedirSet(r, StartsWith(token, <<"2">>), r.rawArgs[r.i + 1],
                Includes(token, opOutApp), 2)
  ELSE RedirKeep(r, token)

\* a fused token in truncate form (main.ts 281-294)
RedirFusedTruncate(r, token) ==
  LET isStdoutWithOne == StartsWith(token, op1Out)
      isStderr == StartsWith(token, op2Out)
      offset == IF isStdoutWithOne \/ isStderr THEN 2 ELSE 1
      target == Slice(token, offset)
  IN IF Len(target) > 0
     THEN RedirSet(r, isStderr, target, FALSE, 1)
     ELSE RedirKeep(r, token)

\* a fused token in append form (main.ts 261-274)
RedirFusedAppend(r, token) ==
  LET isStdoutWithOne == StartsWith(token, op1OutApp)
      isStderr == StartsWith(token, op2OutApp)
      offset == IF isStdoutWithOne \/ isStderr THEN 3 ELSE 2
      target == Slice(token, offset)
  IN IF Len(target) > 0
     THEN RedirSet(r, isStderr, target, TRUE, 1)
     ELSE RedirKeep(r, token)

\* the else-if chain over the fused forms (main.ts 255-295)
RedirFused_TruncateFirst(r, token) ==
  IF \/ StartsWith(token, op1Out)
     \/ StartsWith(token, op2Out)
     \/ StartsWith(token, opOut) THEN RedirFusedTruncate(r, token)
  ELSE RedirKeep(r, token)

RedirFused(r, token) ==
  IF \/ StartsWith(token, op1OutApp)
     \/ StartsWith(token, op2OutApp)
     \/ StartsWith(token, opOutApp) THEN RedirFusedAppend(r, token)
  ELSE IF \/ StartsWith(token, op1Out)
          \/ StartsWith(token, op2Out)
          \/ StartsWith(token, opOut) THEN RedirFusedTruncate(r, token)
  ELSE RedirKeep(r, token)

\* one iteration of the for loop, i++ included (main.ts 230-298)
RedirStep(r) ==
  LET token == r.rawArgs[r.i] IN
  IF token \in StandaloneOps
  THEN RedirStandalone(r, token)
  ELSE RedirFused(r, token)

RECURSIVE RedirRun(_)
RedirRun(r) ==
  IF r.i <= Len(r.rawArgs) THEN RedirRun(RedirStep(r)) ELSE [r EXCEPT !.done = TRUE]

\* parseInput's result for the token sequence `args` of a line (main.ts 212-307)
ParsedOf(args) ==
  IF Len(args) = 0
  THEN [command |-> <<>>, args |-> <<>>,
        redirectTarget |-> None, redirectErrorTarget |-> None,
        appendStdout |-> FALSE, appendStderr |-> FALSE]
  ELSE LET r == RedirRun(RedirInit(Tail(args)))
       IN [command |-> Head(args), args |-> r.filteredArgs,
           redirectTarget |-> r.redirectTarget,
           redirectErrorTarget |-> r.redirectErrorTarget,
           appendStdout |-> r.appendStdout, appendStderr |-> r.appendStderr]

parseInput(line) == ParsedOf(tokenize(line))

(***************************************************************************)
(* Paths (the path module) and the filesystem the shell sees               *)
(***************************************************************************)
SLASH == "/"
DOT == "."

\* s split at "/" into its components, empty ones included
RECURSIVE SplitPath(_)
SplitPath(s) ==
  IF \A k \in 1..Len(s) : s[k] # SLASH THEN <<s>>
  ELSE LET k == CHOOSE j \in 1..Len(s) : s[j] = SLASH /\ \A m \in 1..(j - 1) : s[m] # SLASH
       IN <<SubSeq(s, 1, k - 1)>> \o SplitPath(SubSeq(s, k + 1, Len(s)))

\* the components with "", "." and ".." resolved, as path.normalize does for
\* an absolute path
RECURSIVE NormParts(_, _)
NormParts(parts, acc) ==
  IF parts = <<>> THEN acc
  ELSE LET c == Head(parts) IN
       IF c = <<>> \/ c = <<DOT>> THEN NormParts(Tail(parts), acc)
       ELSE IF c = <<DOT, DOT>>
       THEN NormParts(Tail(parts), IF acc = <<>> THEN acc ELSE SubSeq(acc, 1, Len(acc) - 1))
       ELSE NormParts(Tail(parts), Append(acc, c))

RECURSIVE RenderPath(_)
RenderPath(parts) ==
  IF parts = <<>> THEN <<>> ELSE <<SLASH>> \o Head(parts) \o RenderPath(Tail(parts))

\* an absolute path, normalized
Normalize(s) ==
  LET parts == NormParts(SplitPath(s), <<>>)
  IN IF parts = <<>> THEN <<SLASH>> ELSE RenderPath(parts)

\* path.resolve(base, location) for an absolute base
PathResolve(base, location) ==
  IF StartsWith(location, <<SLASH>>) THEN Normalize(location)
  ELSE Normalize(base \o <<SLASH>> \o location)

\* path.join(a, b) for an absolute a
PathJoin(a, b) == Normalize(a \o <<SLASH>> \o b)

\* the directory holding an absolute path
ParentDir(path) ==
  LET parts == NormParts(SplitPath(path), <<>>)
  IN IF Len(parts) <= 1 THEN <<SLASH>> ELSE RenderPath(SubSeq(parts, 1, Len(parts) - 1))

\* the directories that exist; the shell creates and removes none
rootDir == <<SLASH>>
Dirs == {rootDir, <<SLASH, "d">>, <<SLASH, "h">>, <<SLASH, "b">>, <<SLASH, "c">>}

\* process.env.HOME
home == <<SLASH, "h">>

\* process.env.PATH split at the delimiter (main.ts 14-15)
directories == <<<<SLASH, "b">>, <<SLASH, "c">>>>

BUILTIN_COMMANDS == {<<"c", "d">>, <<"e", "c", "h", "o">>, <<"e", "x", "i", "t">>,
                     <<"p", "w", "d">>, <<"t", "y", "p", "e">>}

(***************************************************************************)
(* The run of one question callback.  Its effects are threaded through a   *)
(* record e: the files, the working directory, whether an exception is     *)
(* propagating, and the calls made so far in order (events), each          *)
(* [op, path, data, by, stream]:                                           *)
(*   op "write"/"append": writeFileSync/appendFileSync returned            *)
(*   op "fail":  writeFileSync/appendFileSync threw                        *)
(*   op "tty":   text reached the terminal                                 *)
(*   op "inspect": the switch on the command word was entered              *)
(*   op "builtin": a builtin's case was taken (path is the command word)   *)
(*   op "spawn": spawnSync returned (path is the program's path)           *)
(* `by` names the code that made the call, `stream` the standard stream    *)
(* the data belongs to ("stdout", "stderr", or "-" for none).               *)
(***************************************************************************)
Ev(op, path, data, by, stream) ==
  [op |-> op, path |-> path, data |-> data, by |-> by, stream |-> stream]

Log(e, ev) == [e EXCEPT !.events = Append(@, ev)]

\* fs.writeFileSync(target, data) and fs.appendFileSync(target, data): the
\* call throws when the target's directory is missing or the target is a
\* directory
CanWrite(path) == ParentDir(path) \in Dirs /\ path \notin Dirs

FsWrite(e, target, data, append, by, stream) ==
  LET path == PathResolve(e.cwd, target)
      old == IF append /\ path \in DOMAIN e.fs THEN e.fs[path] ELSE <<>>
  IN IF CanWrite(path)
     THEN [e EXCEPT !.fs = [q \in DOMAIN e.fs \cup {path} |->
                              IF q = path THEN old \o data ELSE e.fs[q]],
                    !.events = Append(@, Ev(IF append THEN "append" ELSE "write",
                                            path, data, by, stream))]
     ELSE [e EXCEPT !.thrown = TRUE,
                    !.events = Append(@, Ev("fail", path, data, by, stream))]

\* process.stdout.write(text)
Tty(e, text, by, stream) == Log(e, Ev("tty", <<>>, text, by, stream))

\* writeLine (main.ts 132-143)
writeLine(e, output, redirectTarget, append) ==
  LET text == output \o <<NL>> IN
  IF Truthy(redirectTarget)
  THEN FsWrite(e, redirectTarget[1], text, append, "writeLine", "stdout")
  ELSE Tty(e, text, "writeLine", "stdout")

\* console.log(output)
consoleLog(e, output) == Tty(e, output \o <<NL>>, "console.log", "stdout")

\* args.join(" ")
RECURSIVE JoinSpace(_)
JoinSpace(args) ==
  IF args = <<>> THEN <<>>
  ELSE IF Len(args) = 1 THEN args[1]
  ELSE args[1] \o <<SP>> \o JoinSpace(Tail(args))

\* fs.accessSync(path, constants.X_OK) returns: a file with execute permission,
\* or a directory (whose x bit is its search permission)
AccessX(path) == path \in execs \cup Dirs

\* fs.accessSync(path, constants.F_OK) returns: the path names a directory or
\* a file
AccessF(e, path) == path \in Dirs \cup DOMAIN e.fs \cup execs

\* process.chdir(path) returns: the path names a directory
CanChdir(path) == path \in Dirs

\* handleCd (main.ts 310-330): accessSync(F_OK) and chdir in one try block,
\* the message in its catch
handleCd_TildeIsRelative(e, args) ==
  IF Len(args) = 0 THEN e
  ELSE LET location == args[1]
           targetPath == PathResolve(e.cwd, location)
       IN IF AccessF(e, targetPath) /\ CanChdir(targetPath)
          THEN [e EXCEPT !.cwd = targetPath]
          ELSE consoleLog(e, <<"cd: ">> \o location \o <<": No such file or directory">>)

handleCd(e, args) ==
  IF Len(args) = 0 THEN e
  ELSE LET location == args[1]
           targetPath == IF StartsWith(location, <<"~">>)
                         THEN PathJoin(home, Slice(location, 1))
                         ELSE PathResolve(e.cwd, location)
       IN IF AccessF(e, targetPath) /\ CanChdir(targetPath)
          THEN [e EXCEPT !.cwd = targetPath]
          ELSE consoleLog(e, <<"cd: ">> \o location \o <<": No such file or directory">>)

\* handleEcho (main.ts 332-335)
handleEcho_EntersHome(e, args, redirectTarget, append) ==
  [writeLine(e, JoinSpace(args), redirectTarget, append) EXCEPT !.cwd = home]

handleEcho(e, args, redirectTarget, append) ==
  writeLine(e, JoinSpace(args), redirectTarget, append)

\* the loop over directories in handleType (main.ts 354-368), from directory
\* k on; a writeLine that throws is caught and the next directory is tried
RECURSIVE TypeSearch(_, _, _, _, _)
TypeSearch(e, k, commandName, redirectTarget, append) ==
  IF k > Len(directories)
  THEN writeLine(e, commandName \o <<": not found">>, redirectTarget, append)
  ELSE LET fullPath == PathJoin(directories[k], commandName) IN
       IF AccessX(fullPath)
       THEN LET w == writeLine(e, commandName \o <<" is ">> \o fullPath,
                               redirectTarget, append)
            IN IF w.thrown
               THEN TypeSearch([w EXCEPT !.thrown = FALSE], k + 1, commandName,
                               redirectTarget, append)
               ELSE w
       ELSE TypeSearch(e, k + 1, commandName, redirectTarget, append)

\* handleType (main.ts 337-373)
handleType_PathFirst(e, args, redirectTarget, append) ==
  IF Len(args) = 0
  THEN writeLine(e, <<"type: missing operand">>, redirectTarget, append)
  ELSE IF \E k \in 1..Len(directories) : AccessX(PathJoin(directories[k], args[1]))
  THEN TypeSearch(e, 1, args[1], redirectTarget, append)
  ELSE IF args[1] \in BUILTIN_COMMANDS
  THEN writeLine(e, args[1] \o <<" is a shell builtin">>, redirectTarget, append)
  ELSE TypeSearch(e, 1, args[1], redirectTarget, append)

handleType(e, args, redirectTarget, append) ==
  IF Len(args) = 0
  THEN writeLine(e, <<"type: missing operand">>, redirectTarget, append)
  ELSE IF args[1] \in BUILTIN_COMMANDS
  THEN writeLine(e, args[1] \o <<" is a shell builtin">>, redirectTarget, append)
  ELSE TypeSearch(e, 1, args[1], redirectTarget, append)

\* what a child does: the bytes it writes to its stdout and to its stderr
ChildResults == {<<<<>>, <<>>>>, <<<<"out">>, <<>>>>, <<<<"out">>, <<"err">>>>}

\* spawnSync(fullPath, args, {stdio, argv0}) (main.ts 390-432): the child runs
\* to its end; what it writes to an inherited stream reaches the terminal.  A
\* path that is no executable file starts no child, and the result holds no
\* output.
Spawn(e, fullPath, command, args, stdio, child) ==
  LET ran == fullPath \in execs
      e1 == [e EXCEPT !.events = Append(@, Ev("spawn", fullPath, <<>>, "handleNotFound", "-")),
                      !.spawns = Append(@, [path |-> fullPath, argv0 |-> command,
                                            args |-> args, stdio |-> stdio,
                                            wrote |-> IF ran THEN child
                                                      ELSE <<<<>>, <<>>>>])]
      e2 == IF ran /\ stdio[2] = "inherit" /\ child[1] # <<>>
            THEN Tty(e1, child[1], "child", "stdout") ELSE e1
  IN IF ran /\ stdio[3] = "inherit" /\ child[2] # <<>>
     THEN Tty(e2, child[2], "child", "stderr") ELSE e2

\* result.stdout ?? "" and result.stderr ?? ""
Captured(fullPath, data) == IF fullPath \in execs THEN data ELSE <<>>

\* a write that is skipped when an exception is propagating
ThenWrite(e, target, data, append, by, stream) ==
  IF e.thrown THEN e ELSE FsWrite(e, target, data, append, by, stream)

\* the try block of handleNotFound (main.ts 387-434) for a path that passed
\* accessSync
RunFound(e, fullPath, command, args, redirectTarget, redirectErrorTarget, appendStdout, appendStderr, child) ==
  LET stdoutData == Captured(fullPath, child[1])
      stderrData == Captured(fullPath, child[2])
  IN IF Truthy(redirectTarget) /\ Truthy(redirectErrorTarget) THEN
       ThenWrite(FsWrite(Spawn(e, fullPath, command, args,
                               <<"inherit", "pipe", "pipe">>, child),
                         redirectTarget[1], stdoutData, appendStdout, "handleNotFound",
                         "stdout"),
                 redirectErrorTarget[1], stderrData, appendStderr, "handleNotFound",
                 "stderr")
     ELSE IF Truthy(redirectTarget) THEN
       FsWrite(Spawn(e, fullPath, command, args, <<"inherit", "pipe", "inherit">>, child),
               redirectTarget[1], stdoutData, appendStdout, "handleNotFound", "stdout")
     ELSE IF Truthy(redirectErrorTarget) THEN
       FsWrite(Spawn(e, fullPath, command, args, <<"inherit", "inherit", "pipe">>, child),
               redirectErrorTarget[1], stderrData, appendStderr, "handleNotFound", "stderr")
     ELSE
       Spawn(e, fullPath, command, args, <<"inherit", "inherit", "inherit">>, child)

\* the loop over directories in handleNotFound (main.ts 384-439), from
\* directory k on; children[k] is what a child started from directory k does
RECURSIVE ExecSearch(_, _, _, _, _, _, _, _, _)
ExecSearch(e, k, command, args, redirectTarget, redirectErrorTarget, appendStdout, appendStderr, children) ==
  IF k > Len(directories)
  THEN consoleLog(e, command \o <<": command not found">>)
  ELSE LET fullPath == PathJoin(directories[k], command) IN
       IF AccessX(fullPath)
       THEN LET r == RunFound(e, fullPath, command, args, redirectTarget,
                              redirectErrorTarget, appendStdout, appendStderr,
                              children[k])
            IN IF r.thrown
               THEN ExecSearch([r EXCEPT !.thrown = FALSE], k + 1, command, args,
                               redirectTarget, redirectErrorTarget,
                               appendStdout, appendStderr, children)
               ELSE r
       ELSE ExecSearch(e, k + 1, command, args, redirectTarget, redirectErrorTarget,
                       appendStdout, appendStderr, children)

\* handleNotFound (main.ts 375-440)
handleNotFound(e, command, args, redirectTarget, redirectErrorTarget, appendStdout, appendStderr, children) ==
  ExecSearch(e, 1, command, args, redirectTarget, redirectErrorTarget,
             appendStdout, appendStderr, children)

cmdCd == <<"c", "d">>
cmdExit == <<"e", "x", "i", "t">>
cmdEcho == <<"e", "c", "h", "o">>
cmdPwd == <<"p", "w", "d">>
cmdType == <<"t", "y", "p", "e">>

\* the early truncation of the redirect targets (main.ts 452-459)
PreTruncate_Omitted(e, p) == e

PreTruncate(e, p) ==
  LET e1 == IF Truthy(p.redirectTarget) /\ ~p.appendStdout
            THEN FsWrite(e, p.redirectTarget[1], <<>>, FALSE, "prompt", "stdout") ELSE e
  IN IF e1.thrown THEN e1
     ELSE IF Truthy(p.redirectErrorTarget) /\ ~p.appendStderr
     THEN FsWrite(e1, p.redirectErrorTarget[1], <<>>, FALSE, "prompt", "stderr") ELSE e1

\* the switch of the question callback (main.ts 461-490)
Switch(e, p, children) ==
  LET e1 == Log(e, Ev("inspect", <<>>, <<>>, "prompt", "-"))
      b1 == Log(e1, Ev("builtin", p.command, <<>>, "prompt", "-"))
  IN IF p.command = cmdCd THEN handleCd(b1, p.args)
     ELSE IF p.command = cmdExit THEN [b1 EXCEPT !.closed = TRUE]
     ELSE IF p.command = cmdEcho THEN handleEcho(b1, p.args, p.redirectTarget, p.appendStdout)
     ELSE IF p.command = cmdPwd THEN writeLine(b1, b1.cwd, p.redirectTarget, p.appendStdout)
     ELSE IF p.command = cmdType THEN handleType(b1, p.args, p.redirectTarget, p.appendStdout)
     ELSE handleNotFound(e1, p.command, p.args, p.redirectTarget, p.redirectErrorTarget,
                         p.appendStdout, p.appendStderr, children)

\* the question callback after parseInput, up to its last statement
\* (main.ts 452-490)
Callback(e, p, children) ==
  LET e1 == PreTruncate(e, p)
  IN IF e1.thrown THEN e1 ELSE Switch(e1, p, children)

(***************************************************************************)
(* The completion engine: the keypress listener and the completer that     *)
(* readline calls on a tab key (main.ts 22-119).                           *)
(***************************************************************************)
\* the characters of names in code-unit order, the order sort() compares by
CodeOrder == <<SP, "a", "c", "d", "e", "h", "i", "o", "p", "t", "w", "x", "y">>
CharCode(c) == CHOOSE k \in 1..Len(CodeOrder) : CodeOrder[k] = c

\* a sorts before b
RECURSIVE StringLess(_, _)
StringLess(a, b) ==
  IF a = <<>> THEN b # <<>>
  ELSE IF b = <<>> THEN FALSE
  ELSE IF Head(a) = Head(b) THEN StringLess(Tail(a), Tail(b))
  ELSE CharCode(Head(a)) < CharCode(Head(b))

\* Array.from(candidates).sort() (main.ts 85)
RECURSIVE SortStrings(_)
SortStrings(S) ==
  IF S = {} THEN <<>>
  ELSE LET m == CHOOSE x \in S : \A y \in S \ {x} : StringLess(x, y)
       IN <<m>> \o SortStrings(S \ {m})

\* the while loop of longestCommonPrefix on one string (main.ts 38-41)
RECURSIVE ShrinkTo(_, _)
ShrinkTo(prefix, s) ==
  IF StartsWith(s, prefix) THEN prefix
  ELSE LET shorter == SubSeq(prefix, 1, Len(prefix) - 1)
       IN IF shorter = <<>> THEN <<>> ELSE ShrinkTo(shorter, s)

\* the for loop of longestCommonPrefix from strings[i] on (main.ts 37-42)
RECURSIVE LcpFrom(_, _, _)
LcpFrom(strings, i, prefix) ==
  IF i > Len(strings) THEN prefix
  ELSE LET p == ShrinkTo(prefix, strings[i])
       IN IF p = <<>> THEN <<>> ELSE LcpFrom(strings, i + 1, p)

\* longestCommonPrefix (main.ts 32-44)
longestCommonPrefix_First(strings) ==
  IF Len(strings) = 0 THEN <<>> ELSE strings[1]

longestCommonPrefix(strings) ==
  IF Len(strings) = 0 THEN <<>>
  ELSE IF Len(strings) = 1 THEN strings[1]
  ELSE LcpFrom(strings, 2, strings[1])

\* line.trim()
WhiteSpace == {SP, TAB, NL}

RECURSIVE TrimStart(_)
TrimStart(s) == IF s # <<>> /\ Head(s) \in WhiteSpace THEN TrimStart(Tail(s)) ELSE s

RECURSIVE TrimEnd(_)
TrimEnd(s) ==
  IF s # <<>> /\ s[Len(s)] \in WhiteSpace THEN TrimEnd(SubSeq(s, 1, Len(s) - 1)) ELSE s

Trim(s) == TrimEnd(TrimStart(s))

\* the first word of the line (main.ts 51-56)
CommandPart(line) ==
  LET trimmedLine == Trim(line)
      spaces == {k \in 1..Len(trimmedLine) : trimmedLine[k] = SP}
  IN IF spaces = {} THEN trimmedLine
     ELSE SubSeq(trimmedLine, 1, (CHOOSE k \in spaces : \A j \in spaces : k <= j) - 1)

\* the names that start with commandPart: builtins, and the entries of the
\* directories that readdirSync can read (main.ts 64-83)
Candidates(commandPart, listing) ==
  {cmd \in BUILTIN_COMMANDS : StartsWith(cmd, commandPart)} \cup
  UNION {{file \in listing[k].files : StartsWith(file, commandPart)} :
           k \in {j \in 1..Len(listing) : listing[j].readable}}

\* sortedCandidates.join("  ")
RECURSIVE JoinTwoSpaces(_)
JoinTwoSpaces(strings) ==
  IF strings = <<>> THEN <<>>
  ELSE IF Len(strings) = 1 THEN strings[1]
  ELSE strings[1] \o <<SP, SP>> \o JoinTwoSpaces(Tail(strings))

\* "\x07"
BEL == "BEL"

\* the result of the completer: what it returns to readline, what it wrote
\* to the terminal, and whether it had the prompt drawn again
Completion(completions, completeOn, candidates, written, reprompted) ==
  [completions |-> completions, completeOn |-> completeOn, candidates |-> candidates,
   written |-> written, reprompted |-> reprompted]

\* the completer (main.ts 49-119)
completer(line, tabPressCount, listing) ==
  LET commandPart == CommandPart(line)
      sortedCandidates == SortStrings(Candidates(commandPart, listing))
      lcp == longestCommonPrefix(sortedCandidates)
  IN IF Len(commandPart) = 0
     THEN Completion(<<>>, <<>>, <<>>, <<>>, FALSE)
     ELSE IF Len(sortedCandidates) = 0
     THEN Completion(<<>>, commandPart, sortedCandidates, <<<<BEL>>>>, FALSE)
     ELSE IF Len(sortedCandidates) = 1
     THEN Completion(<<sortedCandidates[1] \o <<SP>>>>, commandPart, sortedCandidates,
                     <<>>, FALSE)
     ELSE IF Len(lcp) > Len(commandPart)
     THEN Completion(<<lcp>>, commandPart, sortedCandidates, <<>>, FALSE)
     ELSE IF tabPressCount >= 2
     THEN Completion(<<>>, commandPart, sortedCandidates,
                     <<<<NL>> \o JoinTwoSpaces(sortedCandidates) \o <<NL>>>>, TRUE)
     ELSE Completion(<<>>, commandPart, sortedCandidates, <<<<BEL>>>>, FALSE)

\* the keypress listener (main.ts 22-29)
keypress_NeverResets(tabPressCount, isTab) ==
  IF isTab THEN tabPressCount + 1 ELSE tabPressCount

keypress(tabPressCount, isTab) ==
  IF isTab THEN tabPressCount + 1 ELSE 0

\* the line buffer after readline has applied the completer's result: the
\* part of the one completion that goes beyond completeOn is inserted
Inserted(line, r) ==
  IF /\ Len(r.completions) = 1
     /\ StartsWith(r.completions[1], r.completeOn)
     /\ Len(r.completions[1]) > Len(r.completeOn)
  THEN line \o Slice(r.completions[1], Len(r.completeOn))
  ELSE line

\* what the handling of one key press did
KeyRecord(key, line, r) ==
  [key |-> key, line |-> line, commandPart |-> r.completeOn,
   candidates |-> r.candidates, completions |-> r.completions,
   written |-> r.written, reprompted |-> r.reprompted]

NoCompletion == Completion(<<>>, <<>>, <<>>, <<>>, FALSE)
NoKey == KeyRecord("none", <<>>, NoCompletion)

\* the names the search-path directories may hold
FileNames == {<<"e", "c", "h", "x">>, <<"e", "c", "h", "o">>}

\* what readdirSync may find for one directory
Listings == {[readable |-> FALSE, files |-> {}]} \cup
            {[readable |-> TRUE, files |-> F] : F \in SUBSET FileNames}

\* the editor while no key has been pressed
CompInit(listing) ==
  [line |-> <<>>, tabPressCount |-> 0, listing |-> listing, keys |-> <<>>,
   last |-> NoKey, prev |-> NoKey]

CompIdle == CompInit([k \in 1..Len(directories) |-> [readable |-> FALSE, files |-> {}]])

(***************************************************************************)
(* Spec: the read loop.  ReadLine is one run of the question callback on   *)
(* one input line; prompt() at its end asks the next question.             *)
(***************************************************************************)
\* the input lines; p is a program that may be in /b, in /c or in both, q is
\* in neither, /n is no directory
Lines ==
  {
   <<>>,  \* (the empty line)
   <<"e", "c", "h", "o", SP, "a">>,  \* echo a
   <<"e", "c", "h", "o", SP, "a", SP, GT, SP, "f">>,  \* echo a > f
   <<"e", "c", "h", "o", SP, "a", SP, GT, GT, SP, "f">>,  \* echo a >> f
   <<"e", "c", "h", "o", SP, "a", SP, GT, SP, SLASH, "n", SLASH, "f">>,  \* echo a > /n/f
   <<"e", "c", "h", "o", SP, "a", SP, GT, GT, SP, "f", SP, "2", GT, SP, "f">>,  \* echo a >> f 2> f
   <<"e", "c", "h", "o", SP, SQ, "a">>,  \* echo 'a
   <<"e", "c", "h", "o", SP, GT>>,  \* echo >
   <<"p", "w", "d">>,  \* pwd
   <<"p", "w", "d", SP, GT, GT, SP, "f">>,  \* pwd >> f
   <<"c", "d", SP, "d">>,  \* cd d
   <<"c", "d", SP, DOT, DOT>>,  \* cd ..
   <<"c", "d", SP, "~">>,  \* cd ~
   <<"c", "d", SP, SLASH, "x">>,  \* cd /x
   <<"c", "d", SP, SLASH, "x", SP, GT, SP, "f">>,  \* cd /x > f
   <<"c", "d", SP, "f">>,  \* cd f
   <<"c", "d", SP, "~", SLASH, "x">>,  \* cd ~/x
   <<"c", "d", SP, "~", SLASH, DOT, DOT, SLASH, "d">>,  \* cd ~/../d
   <<"t", "y", "p", "e", SP, "c", "d">>,  \* type cd
   <<"t", "y", "p", "e", SP, "e", "c", "h", "o">>,  \* type echo
   <<"t", "y", "p", "e", SP, "p", "w", "d", SP, GT, SP, "f">>,  \* type pwd > f
   <<"t", "y", "p", "e", SP, "p">>,  \* type p
   <<"t", "y", "p", "e", SP, "p", SP, GT, SP, "f">>,  \* type p > f
   <<"t", "y", "p", "e", SP, "q">>,  \* type q
   <<"t", "y", "p", "e", SP, "p", SP, GT, GT, SP, SLASH, "n", SLASH, "f">>,  \* type p >> /n/f
   <<"p">>,  \* p
   <<"p", SP, "a", SP, GT, SP, "f">>,  \* p a > f
   <<"p", SP, "2", GT, SP, "g">>,  \* p 2> g
   <<"p", SP, GT, SP, "f", SP, "2", GT, GT, SP, "g">>,  \* p > f 2>> g
   <<"p", SP, GT, GT, SP, "f", SP, "2", GT, GT, SP, SLASH, "n", SLASH, "g">>,  \* p >> f 2>> /n/g
   <<"p", SP, GT, SP, "f", SP, "2", GT, SP, "f">>,  \* p > f 2> f
   <<"p", SP, GT, GT, SP, SLASH, "n", SLASH, "f", SP, "2", GT, GT, SP, "g">>,  \* p >> /n/f 2>> g
   <<"q">>,  \* q
   <<"q", SP, GT, SP, "f">>,  \* q > f
   <<"q", SP, "2", GT, GT, SP, "g">>,  \* q 2>> g
   <<"e", "x", "i", "t">>,  \* exit
   <<"e", "x", "i", "t", SP, "0">>,  \* exit 0
   <<"e", "x", "i", "t", SP, GT, SP, "f">>  \* exit > f
  }

\* the most lines read
MaxLines == 2

\* the locals of parseInput's loops while the read loop is looked at
TokIdle == TokInit(<<>>)
RedirIdle == RedirInit(<<>>)

fFile == <<SLASH, "f">>
progPaths == {<<SLASH, "b", SLASH, "p">>, <<SLASH, "c", SLASH, "p">>}

\* executables in the first search-path directory named like the builtins
builtinProgs == {PathJoin(directories[1], c) : c \in BUILTIN_COMMANDS}

NoLine ==
  [line |-> <<>>, parsed |-> ParsedOf(<<>>), fsBefore |-> <<>>, cwdBefore |-> rootDir,
   events |-> <<>>, spawns |-> <<>>]

Init ==
  /\ pc = "prompt"
  /\ cwd = rootDir
  /\ fs \in {<<>>, [q \in {fFile} |-> <<"old">>]}
  /\ execs \in {S \cup B : S \in SUBSET progPaths, B \in {{}, builtinProgs}}
  /\ nLines = 0
  /\ last = NoLine
  /\ tk = TokIdle
  /\ rx = RedirIdle
  /\ cp = CompIdle

\* the state a question callback starts from
Entry ==
  [fs |-> fs, cwd |-> cwd, events |-> <<>>, spawns |-> <<>>,
   thrown |-> FALSE, closed |-> FALSE]

\* what the children started for a line may do: one result per directory
\* that holds a program of the command's name; a builtin starts none
ChildChoices(p) ==
  IF p.command \in BUILTIN_COMMANDS
  THEN {[k \in 1..Len(directories) |-> <<<<>>, <<>>>>]}
  ELSE {c \in [1..Len(directories) -> ChildResults] :
          \A k \in 1..Len(directories) :
            PathJoin(directories[k], p.command) \notin execs => c[k] = <<<<>>, <<>>>>}

\* rl.question's callback (main.ts 442-492) on the line `line`
ReadLine ==
  /\ pc = "prompt"
  /\ nLines < MaxLines
  /\ \E line \in Lines :
       \E p \in {parseInput(line)} :
         \E children \in ChildChoices(p) :
           \E e \in {Callback(Entry, p, children)} :
             /\ pc' = IF e.thrown THEN "crashed"
                      ELSE IF e.closed THEN "closed"
                      ELSE "prompt"
             /\ cwd' = e.cwd
             /\ fs' = e.fs
             /\ nLines' = nLines + 1
             /\ last' = [line |-> line, parsed |-> p, fsBefore |-> fs,
                         cwdBefore |-> cwd, events |-> e.events, spawns |-> e.spawns]
  /\ UNCHANGED <<execs, tk, rx, cp>>

Next == ReadLine

Spec == Init /\ [][Next]_vars

(***************************************************************************)
(* SpecTok: the tokenizer loop, one iteration per step, on every line over *)
(* Alphabet of length at most MaxLen.                                      *)
(***************************************************************************)

\* the shell's variables while a loop of parseInput is looked at on its own
ShellIdle ==
  /\ pc = "prompt"
  /\ cwd = rootDir
  /\ fs = <<>>
  /\ execs = {}
  /\ nLines = 0
  /\ last = NoLine

TokInitState ==
  /\ tk \in {TokInit(line) : line \in StringsUpTo(Alphabet, MaxLen)}
  /\ rx = RedirIdle
  /\ ShellIdle
  /\ cp = CompIdle

TokIterate ==
  /\ ~tk.done
  /\ tk.i <= Len(tk.line)
  /\ tk' = TokStep(tk)
  /\ UNCHANGED <<rx, shellVars, cp>>

TokFinish ==
  /\ ~tk.done
  /\ tk.i > Len(tk.line)
  /\ tk' = TokFlush(tk)
  /\ UNCHANGED <<rx, shellVars, cp>>

TokNext == TokIterate \/ TokFinish

SpecTok == TokInitState /\ [][TokNext]_vars

(***************************************************************************)
(* SpecRedir: the redirection loop, one iteration per step, on every       *)
(* sequence of at most MaxArgs tokens of RedirTokens.                      *)
(***************************************************************************)
fPath == <<"f">>

\* the tokens the redirection loop is run on; no token is empty, as the
\* tokenizer emits none
RedirTokens ==
  StandaloneOps \cup
  {opOut \o fPath, opOutApp \o fPath, op1Out \o fPath, op1OutApp \o fPath,
   op2Out \o fPath, op2OutApp \o fPath,
   <<"a">>, fPath, <<"2">>, <<GT, GT, GT>>, <<"a", GT, "f">>}

\* the most tokens after the command word
MaxArgs == 3

RedirInitState ==
  /\ rx \in {RedirInit(ra) : ra \in StringsUpTo(RedirTokens, MaxArgs)}
  /\ tk = TokIdle
  /\ ShellIdle
  /\ cp = CompIdle

RedirIterate ==
  /\ ~rx.done
  /\ rx.i <= Len(rx.rawArgs)
  /\ rx' = RedirStep(rx)
  /\ UNCHANGED <<tk, shellVars, cp>>

RedirFinish ==
  /\ ~rx.done
  /\ rx.i > Len(rx.rawArgs)
  /\ rx' = [rx EXCEPT !.done = TRUE]
  /\ UNCHANGED <<tk, shellVars, cp>>

RedirNext == RedirIterate \/ RedirFinish

SpecRedir == RedirInitState /\ [][RedirNext]_vars

(***************************************************************************)
(* SpecComp: the line editor, one key press per step.  A tab key runs the  *)
(* keypress listener and then the completer; any other key runs the        *)
(* listener alone.                                                         *)
(***************************************************************************)
\* the characters that can be typed, and a key that types nothing
KeyChars == {"e", "c", SP}
ESC == "escape"

\* the most key presses
MaxKeys == 4

CompInitState ==
  /\ cp \in {CompInit(l) : l \in [1..Len(directories) -> Listings]}
  /\ tk = TokIdle
  /\ rx = RedirIdle
  /\ ShellIdle

\* a tab key: the listener (main.ts 23-25), then the completer (main.ts 49-119)
\* and readline's use of its result
TabKey ==
  /\ Len(cp.keys) < MaxKeys
  /\ \E n \in {keypress(cp.tabPressCount, TRUE)} :
       \E r \in {completer(cp.line, n, cp.listing)} :
         cp' = [cp EXCEPT !.tabPressCount = n,
                          !.line = Inserted(cp.line, r),
                          !.keys = Append(@, TAB),
                          !.prev = cp.last,
                          !.last = KeyRecord(TAB, cp.line, r)]
  /\ UNCHANGED <<tk, rx, shellVars>>

\* a character key: the listener (main.ts 26-28), the character joins the line
CharKey ==
  /\ Len(cp.keys) < MaxKeys
  /\ \E c \in KeyChars :
       cp' = [cp EXCEPT !.tabPressCount = keypress(cp.tabPressCount, FALSE),
                        !.line = Append(@, c),
                        !.keys = Append(@, c),
                        !.prev = cp.last,
                        !.last = KeyRecord(c, cp.line, NoCompletion)]
  /\ UNCHANGED <<tk, rx, shellVars>>

\* a key that leaves the line as it is: the listener alone (main.ts 26-28)
OtherKey ==
  /\ Len(cp.keys) < MaxKeys
  /\ cp' = [cp EXCEPT !.tabPressCount = keypress(cp.tabPressCount, FALSE),
                      !.keys = Append(@, ESC),
                      !.prev = cp.last,
                      !.last = KeyRecord(ESC, cp.line, NoCompletion)]
  /\ UNCHANGED <<tk, rx, shellVars>>

CompNext == TabKey \/ CharKey \/ OtherKey

SpecComp == CompInitState /\ [][CompNext]_vars

(***************************************************************************)
(* SpecParse: parseInput as a whole, on lines made of a command word and   *)
(* up to MaxWords further words, each after one space.  The record tk      *)
(* holds the tokenizer's result, rx the redirection loop's: the fields of  *)
(* the ParsedInput that is returned.                                       *)
(***************************************************************************)
\* the words a line is made of: operators, fused tokens, a plain word, an
\* empty pair of double quotes and a quoted operator
ParseWords ==
  {opOut, op2OutApp, op1Out, opOut \o fPath, op2OutApp \o fPath, <<"a">>,
   <<DQ, DQ>>, <<DQ, GT, DQ>>}

ParseCommands == {<<"a">>, opOut \o fPath}

\* the most words after the command word
MaxWords == 3

\* the words after one space each
RECURSIVE SpacedWords(_)
SpacedWords(ws) ==
  IF ws = <<>> THEN <<>> ELSE <<SP>> \o Head(ws) \o SpacedWords(Tail(ws))

ParseLines ==
  {c \o SpacedWords(ws) : c \in ParseCommands, ws \in StringsUpTo(ParseWords, MaxWords)}

ParseInitState ==
  /\ tk \in {TokInit(line) : line \in ParseLines}
  /\ rx = RedirIdle
  /\ ShellIdle
  /\ cp = CompIdle

\* parseInput (main.ts 145-308): the tokenizer loop, the early return for a
\* line without tokens, the redirection loop over args.slice(1)
ParseLine ==
  /\ ~tk.done
  /\ \E t \in {TokRun(tk)} :
       /\ tk' = t
       /\ rx' = IF Len(t.args) = 0
                THEN [RedirIdle EXCEPT !.done = TRUE]
                ELSE RedirRun(RedirInit(Tail(t.args)))
  /\ UNCHANGED <<shellVars, cp>>

ParseNext == ParseLine

SpecParse == ParseInitState /\ [][ParseNext]_vars

(***************************************************************************)
(* Properties of the tokenizer (SpecTok)                                   *)
(***************************************************************************)
OnlyOf(s, S) == \A k \in 1..Len(s) : s[k] \in S

TokLooping == ~tk.done /\ tk.i <= Len(tk.line)
TokQuoted == tk.inSingleQuote \/ tk.inDoubleQuote

\* C5 as claimed: a line of whitespace only (spaces, tabs, newlines) has no
\* tokens.
C5_WhitespaceLineHasNoTokens ==
  (tk.done /\ OnlyOf(tk.line, {SP, TAB, NL})) => tk.args = <<>>

\* C5 amended: the tokenizer never reads past the end of the line (no token
\* holds anything but characters of the line), and the empty line and every
\* line of space characters only has no tokens, so that parseInput yields
\* command "" with no arguments and no redirection.
C5_SpaceLineHasNoTokens ==
  /\ tk.i <= Len(tk.line) + 1
  /\ OnlyOf(tk.currentArg, Alphabet)
  /\ \A k \in 1..Len(tk.args) : OnlyOf(tk.args[k], Alphabet)
  /\ (tk.done /\ OnlyOf(tk.line, {SP})) =>
       /\ tk.args = <<>>
       /\ ParsedOf(tk.args).command = <<>>
       /\ ParsedOf(tk.args).args = <<>>
       /\ ParsedOf(tk.args).redirectTarget = None
       /\ ParsedOf(tk.args).redirectErrorTarget = None

C5_Witness ==
  tk.done /\ Len(tk.line) = 3 /\ OnlyOf(tk.line, {SP}) /\ tk.args = <<>>

\* C6: inside a double-quoted span a backslash before one of \ $ " newline
\* appends that character alone and consumes both characters, leaving the span
\* open; before any other character it appends the backslash itself and the
\* next iteration reads that character.
C6_DoubleQuoteBackslash ==
  [][(TokLooping /\ tk.inDoubleQuote /\ tk.line[tk.i] = BS /\ tk.i < Len(tk.line)) =>
       LET c == tk.line[tk.i + 1] IN
       /\ tk'.args = tk.args
       /\ tk'.inDoubleQuote
       /\ ~tk'.inSingleQuote
       /\ IF c \in {BS, DOLLAR, DQ, NL}
          THEN tk'.currentArg = Append(tk.currentArg, c) /\ tk'.i = tk.i + 2
          ELSE tk'.currentArg = Append(tk.currentArg, BS) /\ tk'.i = tk.i + 1]_vars

C6_Witness ==
  /\ ~tk.done
  /\ tk.i = 4
  /\ SubSeq(tk.line, 1, 3) = <<DQ, BS, DQ>>
  /\ tk.inDoubleQuote
  /\ tk.currentArg = <<DQ>>

\* C7: outside quotes a backslash before x appends x and drops the backslash,
\* x neither separating tokens nor toggling a quote flag, so that the line
\* backslash+x has the one token x.
C7_PlainBackslash ==
  /\ [](tk.done /\ Len(tk.line) = 2 /\ tk.line[1] = BS => tk.args = <<<<tk.line[2]>>>>)
  /\ [][(TokLooping /\ ~TokQuoted /\ tk.line[tk.i] = BS /\ tk.i < Len(tk.line)) =>
          /\ tk'.currentArg = Append(tk.currentArg, tk.line[tk.i + 1])
          /\ tk'.i = tk.i + 2
          /\ tk'.args = tk.args
          /\ ~tk'.inSingleQuote
          /\ ~tk'.inDoubleQuote]_vars

C7_Witness ==
  tk.done /\ tk.line = <<BS, SP>> /\ tk.args = <<<<SP>>>>

\* C8: tokens are split at unquoted, unescaped spaces and nowhere else; no
\* token is empty; a quoted space stays in the token; a quote character that
\* opens or closes a span is dropped without ending the token.
C8_SplitAtPlainSpaces ==
  /\ [](\A k \in 1..Len(tk.args) : Len(tk.args[k]) > 0)
  /\ [][TokLooping =>
          LET char == tk.line[tk.i] IN
          /\ tk'.args # tk.args =>
               /\ char = SP
               /\ ~TokQuoted
               /\ tk'.args = Append(tk.args, tk.currentArg)
               /\ tk'.currentArg = <<>>
          /\ (char = SP /\ ~TokQuoted /\ tk.currentArg # <<>>) =>
               tk'.args = Append(tk.args, tk.currentArg)
          /\ (char = SP /\ TokQuoted) =>
               tk'.currentArg = Append(tk.currentArg, SP) /\ tk'.args = tk.args
          /\ ((char = DQ /\ ~tk.inSingleQuote) \/ (char = SQ /\ ~tk.inDoubleQuote)) =>
               tk'.currentArg = tk.currentArg /\ tk'.args = tk.args]_vars
  /\ [][(~tk.done /\ tk.i > Len(tk.line)) =>
          tk'.args = IF tk.currentArg = <<>> THEN tk.args
                     ELSE Append(tk.args, tk.currentArg)]_vars

C8_Witness ==
  tk.done /\ tk.line = <<"a", SP, SP, "a">> /\ tk.args = <<<<"a">>, <<"a">>>>

\* C21: the two quote flags are never both set, at any step of any line; a
\* double quote read while inSingleQuote is set, and a single quote read while
\* inDoubleQuote is set, joins the current token as it is and changes no flag.
C21_QuoteFlagsExclusive ==
  /\ [](~(tk.inSingleQuote /\ tk.inDoubleQuote))
  /\ [][(/\ TokLooping
         /\ \/ tk.line[tk.i] = DQ /\ tk.inSingleQuote
            \/ tk.line[tk.i] = SQ /\ tk.inDoubleQuote) =>
          /\ tk'.currentArg = Append(tk.currentArg, tk.line[tk.i])
          /\ tk'.inSingleQuote = tk.inSingleQuote
          /\ tk'.inDoubleQuote = tk.inDoubleQuote
          /\ tk'.args = tk.args
          /\ tk'.i = tk.i + 1]_vars

C21_Witness ==
  /\ tk.done
  /\ tk.line = <<DQ, SQ, DQ, SQ>>
  /\ tk.args = <<<<SQ>>>>
  /\ tk.inSingleQuote
  /\ ~tk.inDoubleQuote

(***************************************************************************)
(* Properties of the redirection loop (SpecRedir)                          *)
(***************************************************************************)
RedirLooping == ~rx.done /\ rx.i <= Len(rx.rawArgs)

\* the fused prefixes, and the longest of them a token starts with
FusedPrefixes == StandaloneOps
MatchingPrefixes(token) == {p \in FusedPrefixes : StartsWith(token, p)}
LongestPrefix(token) ==
  CHOOSE p \in MatchingPrefixes(token) :
    \A q \in MatchingPrefixes(token) : Len(q) <= Len(p)

AppendOps == {opOutApp, op1OutApp, op2OutApp}

\* what a recognised redirection with operator or prefix `op` and target
\* `target` does to the plan, the arguments kept as they are
Records(op, target) ==
  /\ rx'.filteredArgs = rx.filteredArgs
  /\ IF op[1] = "2"
     THEN /\ rx'.redirectErrorTarget = Some(target)
          /\ rx'.appendStderr = (op \in AppendOps)
          /\ rx'.redirectTarget = rx.redirectTarget
          /\ rx'.appendStdout = rx.appendStdout
     ELSE /\ rx'.redirectTarget = Some(target)
          /\ rx'.appendStdout = (op \in AppendOps)
          /\ rx'.redirectErrorTarget = rx.redirectErrorTarget
          /\ rx'.appendStderr = rx.appendStderr

\* C9: a standalone operator with a following token removes both from the
\* arguments and records the following token as the target, of standard-error
\* if the operator starts with 2 and of standard-output otherwise, in append
\* mode if the operator contains >> and in truncate mode otherwise.
C9_StandaloneOperator ==
  [][(RedirLooping /\ rx.rawArgs[rx.i] \in StandaloneOps /\ rx.i < Len(rx.rawArgs)) =>
       /\ rx'.i = rx.i + 2
       /\ Records(rx.rawArgs[rx.i], rx.rawArgs[rx.i + 1])]_vars

C9_Witness ==
  /\ rx.done
  /\ rx.rawArgs = <<<<"a">>, op2OutApp, fPath>>
  /\ rx.filteredArgs = <<<<"a">>>>
  /\ rx.redirectErrorTarget = Some(fPath)
  /\ rx.appendStderr
  /\ rx.redirectTarget = None

\* C10: a token that is no standalone operator and starts with a redirection
\* prefix is removed whole, and what follows its longest prefix among 1>>,
\* 2>>, >>, 1>, 2>, > is recorded as the target (standard-error iff the prefix
\* starts with 2, append iff it contains >>).
C10_FusedToken ==
  [][(/\ RedirLooping
      /\ rx.rawArgs[rx.i] \notin StandaloneOps
      /\ MatchingPrefixes(rx.rawArgs[rx.i]) # {}) =>
       LET token == rx.rawArgs[rx.i]
           prefix == LongestPrefix(token)
       IN /\ Len(Slice(token, Len(prefix))) > 0
          /\ rx'.i = rx.i + 1
          /\ Records(prefix, Slice(token, Len(prefix)))]_vars

C10_Witness ==
  /\ rx.done
  /\ rx.rawArgs = <<opOutApp \o fPath>>
  /\ rx.filteredArgs = <<>>
  /\ rx.redirectTarget = Some(fPath)
  /\ rx.appendStdout

\* C11: a standalone operator read as the last token is kept in the filtered
\* arguments as a literal argument and leaves both plan entries (targets and
\* modes) as they were, so nothing is created, emptied or reported for it.
C11_DanglingOperator ==
  [][(RedirLooping /\ rx.rawArgs[rx.i] \in StandaloneOps /\ rx.i = Len(rx.rawArgs)) =>
       /\ rx'.filteredArgs = Append(rx.filteredArgs, rx.rawArgs[rx.i])
       /\ rx'.redirectTarget = rx.redirectTarget
       /\ rx'.appendStdout = rx.appendStdout
       /\ rx'.redirectErrorTarget = rx.redirectErrorTarget
       /\ rx'.appendStderr = rx.appendStderr
       /\ rx'.i = rx.i + 1]_vars

C11_Witness ==
  /\ rx.done
  /\ rx.rawArgs = <<opOut \o fPath, <<"a">>, op2OutApp>>
  /\ rx.filteredArgs = <<<<"a">>, op2OutApp>>
  /\ rx.redirectTarget = Some(fPath)
  /\ rx.redirectErrorTarget = None
  /\ ~rx.appendStderr

\* the redirections of an argument list read left to right, each as
\* [op, target], and the tokens that are part of none of them
RECURSIVE Redirections(_)
Redirections(ts) ==
  IF ts = <<>> THEN <<>>
  ELSE LET t == Head(ts) IN
       IF t \in StandaloneOps
       THEN IF Len(ts) >= 2
            THEN <<[op |-> t, target |-> ts[2]]>> \o Redirections(SubSeq(ts, 3, Len(ts)))
            ELSE <<>>
       ELSE IF MatchingPrefixes(t) # {}
            THEN <<[op |-> LongestPrefix(t), target |-> Slice(t, Len(LongestPrefix(t)))]>>
                   \o Redirections(Tail(ts))
            ELSE Redirections(Tail(ts))

RECURSIVE NotConsumed(_)
NotConsumed(ts) ==
  IF ts = <<>> THEN <<>>
  ELSE LET t == Head(ts) IN
       IF t \in StandaloneOps
       THEN IF Len(ts) >= 2 THEN NotConsumed(SubSeq(ts, 3, Len(ts))) ELSE <<t>>
       ELSE IF MatchingPrefixes(t) # {}
            THEN NotConsumed(Tail(ts))
            ELSE <<t>> \o NotConsumed(Tail(ts))

ForStderr(op) == op[1] = "2"

\* the positions in `rs` of the redirections of one stream
OfStream(rs, stderr) == {k \in 1..Len(rs) : ForStderr(rs[k].op) = stderr}

RightMost(rs, stderr) == rs[CHOOSE k \in OfStream(rs, stderr) : \A j \in OfStream(rs, stderr) : j <= k]

\* the plan entry of a stream after the redirections `rs`
EntryAfter(rs, stderr) ==
  IF OfStream(rs, stderr) = {}
  THEN [target |-> None, append |-> FALSE]
  ELSE [target |-> Some(RightMost(rs, stderr).target),
        append |-> RightMost(rs, stderr).op \in AppendOps]

\* C12: after the whole argument list, each stream's plan entry has the
\* target and the mode of the right-most redirection for that stream, and a
\* step that records a redirection of one stream leaves the other stream's
\* target and mode as they were.
C12_RightMostWins ==
  /\ [](rx.done =>
         LET rs == Redirections(rx.rawArgs) IN
         /\ rx.redirectTarget = EntryAfter(rs, FALSE).target
         /\ rx.appendStdout = EntryAfter(rs, FALSE).append
         /\ rx.redirectErrorTarget = EntryAfter(rs, TRUE).target
         /\ rx.appendStderr = EntryAfter(rs, TRUE).append)
  /\ [][/\ (rx'.redirectTarget # rx.redirectTarget \/ rx'.appendStdout # rx.appendStdout) =>
            (rx'.redirectErrorTarget = rx.redirectErrorTarget /\ rx'.appendStderr = rx.appendStderr)
        /\ (rx'.redirectErrorTarget # rx.redirectErrorTarget \/ rx'.appendStderr # rx.appendStderr) =>
            (rx'.redirectTarget = rx.redirectTarget /\ rx'.appendStdout = rx.appendStdout)]_vars

C12_Witness ==
  /\ rx.done
  /\ rx.rawArgs = <<opOut \o fPath, op2Out \o fPath, opOutApp \o fPath>>
  /\ rx.redirectTarget = Some(fPath)
  /\ rx.appendStdout
  /\ rx.redirectErrorTarget = Some(fPath)
  /\ ~rx.appendStderr

\* C13: the filtered arguments are the tokens after the command word that are
\* part of no redirection, unchanged and in their order; whatever the first
\* token of the line is, it is the command word and makes no plan entry.
C13_FilteredArguments ==
  rx.done =>
    /\ rx.filteredArgs = NotConsumed(rx.rawArgs)
    /\ \A c \in RedirTokens :
         LET p == ParsedOf(<<c>> \o rx.rawArgs) IN
         /\ p.command = c
         /\ p.args = NotConsumed(rx.rawArgs)
         /\ p.redirectTarget = rx.redirectTarget
         /\ p.redirectErrorTarget = rx.redirectErrorTarget
         /\ p.appendStdout = rx.appendStdout
         /\ p.appendStderr = rx.appendStderr

C13_Witness ==
  /\ rx.done
  /\ rx.rawArgs = <<<<"a">>, opOut \o fPath, <<"2">>>>
  /\ rx.filteredArgs = <<<<"a">>, <<"2">>>>
  /\ ParsedOf(<<opOut \o fPath>> \o rx.rawArgs).command = opOut \o fPath

\* a plan field that is not undefined
IsSet(o) == o # None

\* C22: in the ParsedInput of every line, a target is set only if the tokens
\* after the command word hold a recognised redirection of that stream, a set
\* target is a non-empty string, and an append flag is true only with its
\* target set.
C22_PlanEntriesWellFormed ==
  rx.done =>
    LET rs == IF Len(tk.args) = 0 THEN <<>> ELSE Redirections(Tail(tk.args)) IN
    /\ IsSet(rx.redirectTarget) =>
         (OfStream(rs, FALSE) # {} /\ Len(rx.redirectTarget[1]) > 0)
    /\ IsSet(rx.redirectErrorTarget) =>
         (OfStream(rs, TRUE) # {} /\ Len(rx.redirectErrorTarget[1]) > 0)
    /\ rx.appendStdout => IsSet(rx.redirectTarget)
    /\ rx.appendStderr => IsSet(rx.redirectErrorTarget)
    /\ ParsedOf(tk.args).redirectTarget = rx.redirectTarget
    /\ ParsedOf(tk.args).redirectErrorTarget = rx.redirectErrorTarget
    /\ ParsedOf(tk.args).appendStdout = rx.appendStdout
    /\ ParsedOf(tk.args).appendStderr = rx.appendStderr

\* the line `>f 2>> "" >`: the command word and the empty quotes make no
\* entry, the operator before the quotes takes the token after them
C22_Witness ==
  /\ rx.done
  /\ tk.line = opOut \o fPath \o <<SP>> \o op2OutApp \o <<SP, DQ, DQ, SP>> \o opOut
  /\ tk.args = <<opOut \o fPath, op2OutApp, opOut>>
  /\ rx.redirectErrorTarget = Some(opOut)
  /\ rx.appendStderr
  /\ rx.redirectTarget = None
  /\ ~rx.appendStdout
  /\ rx.filteredArgs = <<>>

(***************************************************************************)
(* Properties of the read loop (Spec)                                      *)
(***************************************************************************)
Plan == last.parsed
OutPath == PathResolve(last.cwdBefore, Plan.redirectTarget[1])
ErrPath == PathResolve(last.cwdBefore, Plan.redirectErrorTarget[1])

\* the content of a file before the last line; a missing file has none
Before(path) == IF path \in DOMAIN last.fsBefore THEN last.fsBefore[path] ELSE <<>>

\* the text the shell itself emitted for the last line
ShellText(ev) == ev.by \in {"writeLine", "console.log"}

\* a write of content, as opposed to the early truncation
ContentWrite(ev) == ev.op \in {"write", "append"} /\ ev.by # "prompt"

\* the bytes the last line's command produced on a stream, in order
RECURSIVE ProducedFrom(_, _)
ProducedFrom(events, stream) ==
  IF events = <<>> THEN <<>>
  ELSE LET ev == Head(events) IN
       (IF ev.stream = stream /\ ev.by # "prompt" /\ ev.op \in {"write", "append", "tty", "fail"}
        THEN ev.data ELSE <<>>) \o ProducedFrom(Tail(events), stream)

\* C1: every line of text the shell emits for a builtin or as the
\* command-not-found report goes to the stdout target of the line's plan, in
\* the plan's mode, when the plan has one, and to the terminal only when it
\* has none.
C1_ShellTextFollowsPlan ==
  \A k \in 1..Len(last.events) :
    LET ev == last.events[k] IN
    ShellText(ev) =>
      IF Truthy(Plan.redirectTarget)
      THEN /\ ev.op \in {"write", "append", "fail"}
           /\ ev.path = OutPath
           /\ ev.op = "append" => Plan.appendStdout
           /\ ev.op = "write" => ~Plan.appendStdout
      ELSE ev.op = "tty"

\* C2: after a line whose command word is not exit the loop asks the next
\* question, whatever happened while the line was handled; after an exit line
\* no further line is read.
C2_LoopRepromptsUnlessExit ==
  /\ [][nLines' = nLines + 1 =>
          IF last'.parsed.command = cmdExit THEN pc' # "prompt" ELSE pc' = "prompt"]_vars
  /\ [][pc # "prompt" => nLines' = nLines]_vars

\* C3: for each stream the plan redirects in truncate mode, the target has
\* been created or emptied before the command word is inspected and before any
\* builtin or any child runs; content is written to a file only after the
\* builtin was entered or the child has returned; and a target nothing was
\* written to afterwards is left empty.
TruncatePaths ==
  (IF Truthy(Plan.redirectTarget) /\ ~Plan.appendStdout THEN {OutPath} ELSE {})
  \cup (IF Truthy(Plan.redirectErrorTarget) /\ ~Plan.appendStderr THEN {ErrPath} ELSE {})

C3_TruncateBeforeCommand ==
  /\ \A path \in TruncatePaths :
       \A j \in 1..Len(last.events) :
         (last.events[j].op \in {"inspect", "builtin", "spawn"} \/ ContentWrite(last.events[j])) =>
           \E k \in 1..(j - 1) :
             /\ last.events[k].op = "write"
             /\ last.events[k].by = "prompt"
             /\ last.events[k].path = path
             /\ last.events[k].data = <<>>
  /\ \A j \in 1..Len(last.events) :
       ContentWrite(last.events[j]) =>
         \E k \in 1..(j - 1) : last.events[k].op \in {"builtin", "spawn"}
  /\ \A path \in TruncatePaths :
       (/\ pc # "crashed"
        /\ \A j \in 1..Len(last.events) :
             ContentWrite(last.events[j]) => last.events[j].path # path) =>
         (path \in DOMAIN fs /\ fs[path] = <<>>)

\* a command that is not found, with a truncating redirection to a file that
\* held content
C3_Witness ==
  /\ nLines >= 1
  /\ Plan.command = <<"q">>
  /\ Truthy(Plan.redirectTarget)
  /\ ~Plan.appendStdout
  /\ Before(OutPath) = <<"old">>
  /\ fs[OutPath] = <<>>
  /\ \E j \in 1..Len(last.events) : last.events[j].op = "inspect"

\* C4: after a line is dispatched, an append-mode target holds what it held
\* before followed by what the command produced on that stream, and a
\* truncate-mode target holds only what the command produced on that stream.
C4_RedirectedFileContent ==
  (nLines >= 1 /\ pc # "crashed") =>
    /\ Truthy(Plan.redirectTarget) =>
         /\ OutPath \in DOMAIN fs
         /\ fs[OutPath] = (IF Plan.appendStdout THEN Before(OutPath) ELSE <<>>)
                            \o ProducedFrom(last.events, "stdout")
    /\ Truthy(Plan.redirectErrorTarget) =>
         /\ ErrPath \in DOMAIN fs
         /\ fs[ErrPath] = (IF Plan.appendStderr THEN Before(ErrPath) ELSE <<>>)
                            \o ProducedFrom(last.events, "stderr")

\* the line just read ran the cd handler with a path argument
CdRan ==
  /\ nLines > 0
  /\ Plan.command = cmdCd
  /\ Len(Plan.args) > 0
  /\ \E k \in 1..Len(last.events) : last.events[k].op = "builtin"

\* the target cd resolves its argument to
CdTarget ==
  LET location == Plan.args[1] IN
  IF location[1] = "~"
  THEN Normalize(home \o <<SLASH>> \o Slice(location, 1))
  ELSE IF location[1] = SLASH THEN Normalize(location)
  ELSE Normalize(last.cwdBefore \o <<SLASH>> \o location)

\* what the handler of the line just read emitted, in order
RECURSIVE HandlerOutput(_)
HandlerOutput(events) ==
  IF events = <<>> THEN <<>>
  ELSE IF Head(events).op \in {"tty", "write", "append", "fail"} /\ Head(events).by # "prompt"
       THEN <<Head(events)>> \o HandlerOutput(Tail(events))
       ELSE HandlerOutput(Tail(events))

CdMessage == <<"cd: ">> \o Plan.args[1] \o <<": No such file or directory">> \o <<NL>>

CdFails ==
  /\ cwd = last.cwdBefore
  /\ Len(HandlerOutput(last.events)) = 1
  /\ HandlerOutput(last.events)[1].data = CdMessage

CdEnters ==
  /\ cwd = CdTarget
  /\ HandlerOutput(last.events) = <<>>

\* C14 as stated: cd fails with its one message exactly when the resolved
\* target does not exist, and enters the target whenever it exists.
C14_CdEntersWhatExists ==
  CdRan => IF CdTarget \in Dirs \cup DOMAIN fs \cup execs THEN CdEnters ELSE CdFails

\* C14: cd with a path argument enters the resolved target (the home
\* directory in place of a leading ~, otherwise resolved against the working
\* directory) and emits nothing when the target is a directory; otherwise
\* (missing, or a file) it emits the one line `cd: <path>: No such file or
\* directory` with the path as typed and leaves the working directory.
C14_CdEntersDirectories ==
  CdRan => IF CdTarget \in Dirs THEN CdEnters ELSE CdFails

C14_Witness ==
  /\ CdRan
  /\ Plan.args[1] = <<"f">>
  /\ CdTarget \in DOMAIN fs
  /\ CdFails

C14_WitnessEnters ==
  /\ CdRan
  /\ Plan.args[1] = <<"~", SLASH, DOT, DOT, SLASH, "d">>
  /\ last.cwdBefore = rootDir
  /\ cwd = <<SLASH, "d">>

\* the switch of the callback was entered for the line just read
Dispatched == \E k \in 1..Len(last.events) : last.events[k].op = "inspect"

\* C15: dispatching a command other than cd leaves the working directory as
\* it was, and a dispatched pwd emits exactly one line, the working directory;
\* so between two cd lines every pwd emits the same line.
C15_OnlyCdMovesCwd ==
  [][(Dispatched' /\ last'.parsed.command # cmdCd) =>
       /\ cwd' = cwd
       /\ (last'.parsed.command = cmdPwd =>
             /\ Len(HandlerOutput(last'.events)) = 1
             /\ HandlerOutput(last'.events)[1].data = cwd \o <<NL>>)]_vars

C15_Witness ==
  /\ nLines = 2
  /\ Dispatched
  /\ Plan.command = cmdPwd
  /\ last.cwdBefore = <<SLASH, "d">>
  /\ cwd = <<SLASH, "d">>
  /\ HandlerOutput(last.events)[1].data = <<SLASH, "d", NL>>

\* C16: a line whose command word is in the builtin table starts no process,
\* whatever the search-path directories hold, its dispatch takes the builtin's
\* case, and type of a builtin name emits `<name> is a shell builtin`.
C16_BuiltinsShadowPrograms ==
  (nLines > 0 /\ Plan.command \in BUILTIN_COMMANDS) =>
    /\ last.spawns = <<>>
    /\ \A k \in 1..Len(last.events) : last.events[k].op # "spawn"
    /\ Dispatched =>
         /\ \E k \in 1..Len(last.events) :
              last.events[k].op = "builtin" /\ last.events[k].path = Plan.command
         /\ (Plan.command = cmdType /\ Len(Plan.args) > 0 /\ Plan.args[1] \in BUILTIN_COMMANDS) =>
              /\ Len(HandlerOutput(last.events)) = 1
              /\ HandlerOutput(last.events)[1].data =
                   Plan.args[1] \o <<" is a shell builtin">> \o <<NL>>

C16_Witness ==
  /\ nLines > 0
  /\ Dispatched
  /\ Plan.command = cmdType
  /\ Plan.args = <<cmdEcho>>
  /\ <<SLASH, "b", SLASH, "e", "c", "h", "o">> \in execs
  /\ HandlerOutput(last.events)[1].data = cmdEcho \o <<" is a shell builtin">> \o <<NL>>

\* the first search-path directory, in listed order, whose entry `name`
\* passes the execute check (0: none)
FirstDir(name) ==
  IF \E k \in 1..Len(directories) : AccessX(PathJoin(directories[k], name))
  THEN CHOOSE k \in 1..Len(directories) :
         /\ AccessX(PathJoin(directories[k], name))
         /\ \A j \in 1..(k - 1) : ~AccessX(PathJoin(directories[j], name))
  ELSE 0

\* what `type name` emits in the current state
TypeReport(name) == HandlerOutput(handleType(Entry, <<name>>, None, FALSE).events)

NotFoundEmitted ==
  \E k \in 1..Len(last.events) :
    /\ last.events[k].op = "tty"
    /\ last.events[k].data = Plan.command \o <<": command not found">> \o <<NL>>

\* C17: for a dispatched line with a non-builtin command word, type of that
\* word reports the entry of the earliest search-path directory that holds an
\* executable of that name and the dispatch starts exactly that path; type
\* reports `not found` exactly when the dispatch emits `command not found`.
C17_TypeAndDispatchAgree ==
  (nLines > 0 /\ Dispatched /\ Plan.command \notin BUILTIN_COMMANDS) =>
    LET name == Plan.command
        k == FirstDir(name)
    IN IF k = 0
       THEN /\ TypeReport(name) = <<Ev("tty", <<>>, name \o <<": not found">> \o <<NL>>, "writeLine", "stdout")>>
            /\ last.spawns = <<>>
            /\ NotFoundEmitted
       ELSE /\ TypeReport(name) = <<Ev("tty", <<>>, name \o <<" is ">> \o PathJoin(directories[k], name) \o <<NL>>, "writeLine", "stdout")>>
            /\ Len(last.spawns) = 1
            /\ last.spawns[1].path = PathJoin(directories[k], name)
            /\ ~NotFoundEmitted

\* the positions of the spawnSync calls in the events of the line just read
SpawnPositions == {k \in 1..Len(last.events) : last.events[k].op = "spawn"}

\* the position of the n-th call, and the position its events end before
SpawnPos(n) ==
  CHOOSE k \in SpawnPositions : Cardinality({j \in SpawnPositions : j <= k}) = n
SpawnEnd(n) ==
  IF n < Cardinality(SpawnPositions) THEN SpawnPos(n + 1) ELSE Len(last.events) + 1

\* after the n-th call, `data` was handed to a write to `path` in the mode
\* `append` for the stream `stream`
WriteBack(n, stream, path, append, data) ==
  \E k \in (SpawnPos(n) + 1)..(SpawnEnd(n) - 1) :
    LET ev == last.events[k] IN
    /\ ev.by = "handleNotFound"
    /\ ev.stream = stream
    /\ ev.path = path
    /\ ev.data = data
    /\ ev.op \in {IF append THEN "append" ELSE "write", "fail"}

\* C18: every process started for a line gets the command word as argv0 and
\* the filtered arguments, inherits stdin, has stdout piped exactly when the
\* plan has a stdout target and stderr piped exactly when it has a stderr
\* target, and what it wrote to a piped stream is handed to a write to that
\* stream's target in that stream's mode.
C18_SpawnFollowsPlan ==
  nLines > 0 =>
    \A n \in 1..Len(last.spawns) :
      LET sp == last.spawns[n] IN
      /\ sp.argv0 = Plan.command
      /\ sp.args = Plan.args
      /\ sp.stdio[1] = "inherit"
      /\ sp.stdio[2] = IF Truthy(Plan.redirectTarget) THEN "pipe" ELSE "inherit"
      /\ sp.stdio[3] = IF Truthy(Plan.redirectErrorTarget) THEN "pipe" ELSE "inherit"
      /\ Truthy(Plan.redirectTarget) =>
           WriteBack(n, "stdout", OutPath, Plan.appendStdout, sp.wrote[1])
      /\ Truthy(Plan.redirectErrorTarget) =>
           WriteBack(n, "stderr", ErrPath, Plan.appendStderr, sp.wrote[2])

(***************************************************************************)
(* Properties of the completion engine (SpecComp)                          *)
(***************************************************************************)
\* the tab presses at the end of the key presses so far
RECURSIVE ConsecutiveTabs(_)
ConsecutiveTabs(keys) ==
  IF keys = <<>> \/ keys[Len(keys)] # TAB THEN 0
  ELSE 1 + ConsecutiveTabs(SubSeq(keys, 1, Len(keys) - 1))

\* the prefixes of a string, itself and the empty string included
Prefixes(s) == {SubSeq(s, 1, n) : n \in 0..Len(s)}

\* the longest string that is a prefix of every string of the non-empty set S
CommonPrefix(S) ==
  LET common == {p \in Prefixes(CHOOSE x \in S : TRUE) : \A y \in S : StartsWith(y, p)}
  IN CHOOSE p \in common : \A q \in common : Len(q) <= Len(p)

\* the set of the elements of a sequence
Range(seq) == {seq[k] : k \in 1..Len(seq)}

\* the key press `k` was a tab that found several candidates whose longest
\* common prefix the partial word already is
AtCommonPrefix(k) ==
  /\ k.key = TAB
  /\ Len(k.candidates) > 1
  /\ CommonPrefix(Range(k.candidates)) = k.commandPart

AlertOnly(k) == k.written = <<<<BEL>>>>
ListPrinted(k) == k.written = <<<<NL>> \o JoinTwoSpaces(k.candidates) \o <<NL>>>>

\* C19 as stated: the first tab press that finds the word at the common prefix
\* of several candidates only alerts, whatever key came before it; the list is
\* printed only on a second-or-later consecutive tab; another key resets the
\* counter.
C19_FirstTabAtPrefixAlerts ==
  /\ (AtCommonPrefix(cp.last) /\ ~AtCommonPrefix(cp.prev)) => AlertOnly(cp.last)
  /\ (cp.last.key = TAB /\ cp.last.written # <<>> /\ ~AlertOnly(cp.last)) =>
       (ListPrinted(cp.last) /\ ConsecutiveTabs(cp.keys) >= 2)
  /\ (cp.keys # <<>> /\ cp.last.key # TAB) => cp.tabPressCount = 0

\* C19: a tab press that finds the partial word at the longest common prefix
\* of several candidates only alerts when it is the first of its run of
\* consecutive tab presses, and prints the sorted candidates when it is the
\* second or a later one, also when the tab before it completed the word; the
\* list is printed in no other case, and a key other than tab resets the
\* counter to zero.
C19_ListOnSecondConsecutiveTab ==
  /\ cp.tabPressCount = ConsecutiveTabs(cp.keys)
  /\ AtCommonPrefix(cp.last) =>
       IF ConsecutiveTabs(cp.keys) >= 2 THEN ListPrinted(cp.last) ELSE AlertOnly(cp.last)
  /\ (cp.last.key = TAB /\ cp.last.written # <<>> /\ ~AlertOnly(cp.last)) =>
       (AtCommonPrefix(cp.last) /\ ListPrinted(cp.last) /\ ConsecutiveTabs(cp.keys) >= 2)
  /\ (cp.keys # <<>> /\ cp.last.key # TAB) => cp.tabPressCount = 0

C19_Witness ==
  /\ cp.keys = <<"e", "c", TAB, TAB>>
  /\ cp.prev.completions = <<<<"e", "c", "h">>>>
  /\ AtCommonPrefix(cp.last)
  /\ ~AtCommonPrefix(cp.prev)
  /\ ListPrinted(cp.last)
  /\ cp.last.candidates = <<<<"e", "c", "h", "o">>, <<"e", "c", "h", "x">>>>

\* the first word of a line: what is left of it without the blanks around it,
\* up to its first space
RECURSIVE UpToSpace(_)
UpToSpace(s) ==
  IF s = <<>> \/ Head(s) = SP THEN <<>> ELSE <<Head(s)>> \o UpToSpace(Tail(s))

PartialWord(line) == UpToSpace(TrimStart(line))

\* the names the completion chooses from for `word`
CandidateSet(word, listing) ==
  {name \in BUILTIN_COMMANDS \cup
            UNION {listing[k].files : k \in {j \in DOMAIN listing : listing[j].readable}} :
     StartsWith(name, word)}

\* C20: on a tab press, with the candidates being the builtins and the
\* readable search-path directories' entries that start with the partial
\* word, each once: no candidate gives no proposal and an alert; one candidate
\* gives that candidate and a space; several give their longest common prefix,
\* without a space, when it is longer than the word, and no proposal
\* otherwise; every proposal starts with the word.
C20_Proposal ==
  cp.last.key = TAB =>
    LET word == PartialWord(cp.last.line)
        S == CandidateSet(word, cp.listing)
        proposals == cp.last.completions
    IN /\ word # <<>> => (cp.last.commandPart = word /\ Range(cp.last.candidates) = S
                           /\ Len(cp.last.candidates) = Cardinality(S))
       /\ IF S = {} THEN proposals = <<>> /\ AlertOnly(cp.last)
          ELSE IF Cardinality(S) = 1 THEN proposals = <<(CHOOSE x \in S : TRUE) \o <<SP>>>>
          ELSE IF Len(CommonPrefix(S)) > Len(word) THEN proposals = <<CommonPrefix(S)>>
          ELSE proposals = <<>>
       /\ \A k \in 1..Len(proposals) : StartsWith(proposals[k], word)
       /\ cp.line = IF proposals = <<>> THEN cp.last.line
                    ELSE cp.last.line \o Slice(proposals[1], Len(word))

C20_Witness ==
  /\ cp.last.key = TAB
  /\ cp.last.line = <<SP, "e", "c">>
  /\ cp.last.candidates = <<<<"e", "c", "h", "o">>, <<"e", "c", "h", "x">>>>
  /\ cp.last.completions = <<<<"e", "c", "h">>>>
  /\ cp.line = <<SP, "e", "c", "h">>

\* C23: a line makes at most one call of spawnSync, whether or not the write
\* of the captured output fails, and a line for which spawnSync was called
\* does not emit `<command>: command not found`.
C23_RunsAtMostOnce ==
  nLines > 0 =>
    /\ Len(last.spawns) <= 1
    /\ Cardinality(SpawnPositions) <= 1
    /\ last.spawns # <<>> => ~NotFoundEmitted

====
